---- MODULE Spec2Model ----
(***************************************************************************)
(* A model of the file organizer's planning / execution / undo pipeline:   *)
(* FileOrganizer (organizer.py), Transaction (models.py) and               *)
(* TransactionLogger (safety.py), driven the way cli.py drives them.       *)
(*                                                                         *)
(* The filesystem is a finite map from paths to files (data, mtime) plus   *)
(* the set of existing directories.  A path is <<root, folder, stem, k>>:  *)
(*   <<"p1", "docs", "a", 0>>    a scanned source file p1/docs/a            *)
(*   <<"base", "docs", "a", 0>>  the organized file  base/docs/a            *)
(*   <<"base", "docs", "a", 2>>  its renamed sibling base/docs/a_2          *)
(*   <<"bak", "", "a", 40>>      the backup a_<timestamp 40> in backup_path *)
(* Wall-clock time is an integer number of seconds.                        *)
(***************************************************************************)
EXTENDS Integers, Sequences, FiniteSets, TLC

VARIABLES
    fs,         \* the files: path -> [data, mtime]
    dirs,       \* the directories that exist under base_path and backup_path
    now,        \* the last reading of datetime.now(), in seconds
    log,        \* the persisted transaction log (a list of dicts)
    cfg,        \* the Config the organizer and the logger were built with
    plans,      \* the list create_organization_plan returned last
    pc,         \* "idle", "exec" (inside execute_plan's loop), "done", "raised"
    idx,        \* execute_plan's position in plans
    txns,       \* execute_plan's list of transactions
    dry,        \* execute_plan's dry_run argument
    runsLeft,   \* real (non dry) execute_plan calls still allowed
    dryLeft,    \* dry runs still allowed
    faultsUsed, \* number of steps the environment made raise so far
    \* History, read by the properties only:
    preFs,      \* fs when the current execute_plan started
    preDirs,    \* dirs at that time
    fresh,      \* nothing changed the filesystem since plans was created
    freshRun,   \* the current execute_plan started with fresh plans
    meta,       \* per transaction of txns: the fault injected, the source's data before
    logMeta,    \* the same, per entry of log, with the number of the run that logged it
    logged,     \* number of log_transactions calls so far
    undoInfo,   \* what undo_last_batch processed and returned, right after it ran
    logFile,    \* what the log file holds: "list" (the list log) or a damaged form
    logOp,      \* the last logger operation made on a damaged log file, its outcome
    pure        \* a call of one of the organizer's pure helpers: arguments, result

vars == <<fs, dirs, now, log, cfg, plans, pc, idx, txns, dry, runsLeft, dryLeft,
          faultsUsed, preFs, preDirs, fresh, freshRun, meta, logMeta, logged,
          undoInfo, logFile, logOp, pure>>

(***************************************************************************)
(* Bounds of the model and constants of the program.                       *)
(***************************************************************************)
MaxFiles == 2

\* How many execute_plan calls a behaviour makes: <<real runs, dry runs>>.
\* Dry runs leave nothing behind but the clock, so they are not mixed with
\* real ones.
Budgets == {<<1, 0>>, <<0, 2>>}
LogBudgets == {<<2, 0>>}
MaxFaults == 1
MaxTime == 120
BatchWindow == 60

\* Seconds that may pass between two readings of the clock.
Deltas == {0, 40, 60}

None == "None"
NoPath == <<"none", "", "", 0>>

\* The files the scanners can find: two share a file name and a parent
\* folder name (in different trees), one has another name.
SrcA == <<"p1", "docs", "a", 0>>
SrcB == <<"p2", "docs", "a", 0>>
SrcC == <<"p1", "docs", "b", 0>>
Sources == {SrcA, SrcB, SrcC}

InitialFile(p) ==
    IF p = SrcA THEN [data |-> "A", mtime |-> 1]
    ELSE IF p = SrcB THEN [data |-> "B", mtime |-> 2]
    ELSE [data |-> "C", mtime |-> 1]

OldFile == [data |-> "old", mtime |-> 1]

BasePath == "base"
BackupPath == "bak"

\* Files that may already be organized before the first run.
PreExisting == {{}, {<<BasePath, "docs", "a", 0>>},
                {<<BasePath, "docs", "a", 0>>, <<BasePath, "docs", "a", 1>>}}

Modes == {"copy", "move"}
Strategies == {"skip", "rename", "keep_newest", "keep_oldest", "overwrite", "prompt"}

\* Where the environment makes a step of execute_plan raise.
Faults == {"none", "mkdir", "backup", "op", "stat"}

(***************************************************************************)
(* Filesystem primitives.                                                  *)
(***************************************************************************)
Exists(F, p) == p \in DOMAIN F

Put(F, p, f) == [q \in (DOMAIN F) \cup {p} |-> IF q = p THEN f ELSE F[q]]

Remove(F, p) == [q \in (DOMAIN F) \ {p} |-> F[q]]

Parent(p) == <<p[1], p[2]>>

(***************************************************************************)
(* models.py                                                               *)
(***************************************************************************)
\* FileMetadata.from_path: the record a scanner makes of an existing file.
FromPath(F, p) ==
    [source_path |-> p, stem |-> p[3], parent_folder |-> p[2],
     modified_date |-> F[p].mtime]

\* Transaction.to_dict / Transaction.from_dict: the persisted form keeps
\* every field; a missing backup path is stored as null.
ToDict(t) ==
    [timestamp |-> t.timestamp, operation |-> t.operation,
     source_path |-> t.source_path, destination_path |-> t.destination_path,
     success |-> t.success, error |-> t.error,
     backup_path |-> IF t.backup_path # NoPath THEN t.backup_path ELSE NoPath]

FromDict(d) ==
    [timestamp |-> d.timestamp, operation |-> d.operation,
     source_path |-> d.source_path, destination_path |-> d.destination_path,
     success |-> d.success, error |-> d.error,
     backup_path |-> IF d.backup_path # NoPath THEN d.backup_path ELSE NoPath]

(***************************************************************************)
(* organizer.py: planning.                                                 *)
(***************************************************************************)
\* _detect_project for a record with no repository and no keyword pattern:
\* the parent folder's name.
DetectProject(fm) == fm.parent_folder

\* _generate_destination_path: base_path / structure template, here
\* {project}/{filename}.
GenerateDestinationPath(fm) == <<BasePath, DetectProject(fm), fm.stem, 0>>

\* As RenameLoop, taking the first candidate without looking at the disk.
RenameLoopNoExistsCheck(F, p, counter) == <<p[1], p[2], p[3], counter>>

\* The rename loop of _resolve_conflict: the first <stem>_<counter> that
\* does not exist.
RECURSIVE RenameLoop(_, _, _)
RenameLoop(F, p, counter) ==
    LET new_path == <<p[1], p[2], p[3], counter>>
    IN  IF ~Exists(F, new_path) THEN new_path ELSE RenameLoop(F, p, counter + 1)

\* As ResolveConflict, with strict comparisons of the modification times.
ResolveConflictStrict(plan, F) ==
    LET resolution == plan.conflict_resolution
        existing_mtime == F[plan.destination_path].mtime
        new_mtime == plan.file_metadata.modified_date
    IN  CASE resolution = "skip" ->
                [plan EXCEPT !.skip = TRUE, !.skip_reason = "File already exists"]
          [] resolution = "rename" ->
                [plan EXCEPT !.destination_path = RenameLoop(F, plan.destination_path, 1),
                             !.conflict = FALSE]
          [] resolution = "keep_newest" ->
                IF new_mtime < existing_mtime
                THEN [plan EXCEPT !.skip = TRUE, !.skip_reason = "Existing file is newer"]
                ELSE plan
          [] resolution = "keep_oldest" ->
                IF new_mtime > existing_mtime
                THEN [plan EXCEPT !.skip = TRUE, !.skip_reason = "Existing file is older"]
                ELSE plan
          [] resolution = "overwrite" ->
                [plan EXCEPT !.conflict = FALSE]
          [] OTHER -> plan

\* As ResolveConflict, with the overwrite branch leaving the plan as it is.
ResolveConflictOverwriteFlagKept(plan, F) ==
    IF plan.conflict_resolution = "overwrite" THEN plan
    ELSE ResolveConflictStrict(plan, F)

\* _resolve_conflict: the plan updated according to its strategy; mtimes
\* are whole seconds, so datetime.timestamp() loses nothing.
ResolveConflict(plan, F) ==
    LET resolution == plan.conflict_resolution
        existing_mtime == F[plan.destination_path].mtime
        new_mtime == plan.file_metadata.modified_date
    IN  CASE resolution = "skip" ->
                [plan EXCEPT !.skip = TRUE, !.skip_reason = "File already exists"]
          [] resolution = "rename" ->
                [plan EXCEPT !.destination_path = RenameLoop(F, plan.destination_path, 1),
                             !.conflict = FALSE]
          [] resolution = "keep_newest" ->
                IF new_mtime <= existing_mtime
                THEN [plan EXCEPT !.skip = TRUE, !.skip_reason = "Existing file is newer"]
                ELSE plan
          [] resolution = "keep_oldest" ->
                IF new_mtime >= existing_mtime
                THEN [plan EXCEPT !.skip = TRUE, !.skip_reason = "Existing file is older"]
                ELSE plan
          [] resolution = "overwrite" ->
                [plan EXCEPT !.conflict = FALSE]
          [] OTHER -> plan

\* As PlanFor, with the strategy recorded on every plan, conflict or not.
PlanForResolutionAlwaysSet(fm, F, c) ==
    LET dest_path == GenerateDestinationPath(fm)
        plan == [file_metadata |-> fm, destination_path |-> dest_path,
                 operation |-> c.mode, conflict |-> FALSE,
                 conflict_resolution |-> c.conflict_resolution, skip |-> FALSE,
                 skip_reason |-> None]
    IN  IF Exists(F, dest_path)
        THEN ResolveConflict([plan EXCEPT !.conflict = TRUE], F)
        ELSE plan

\* As PlanFor, without the check for an existing destination.
PlanForNoConflictCheck(fm, F, c) ==
    [file_metadata |-> fm, destination_path |-> GenerateDestinationPath(fm),
     operation |-> c.mode, conflict |-> FALSE, conflict_resolution |-> None,
     skip |-> FALSE, skip_reason |-> None]

\* The body of create_organization_plan's loop for one record.
PlanFor(fm, F, c) ==
    LET dest_path == GenerateDestinationPath(fm)
        plan == [file_metadata |-> fm, destination_path |-> dest_path,
                 operation |-> c.mode, conflict |-> FALSE,
                 conflict_resolution |-> None, skip |-> FALSE,
                 skip_reason |-> None]
    IN  IF Exists(F, dest_path)
        THEN ResolveConflict([plan EXCEPT !.conflict = TRUE,
                                          !.conflict_resolution = c.conflict_resolution], F)
        ELSE plan

\* As CreateOrganizationPlan, skipping a record whose candidate destination
\* an earlier record of the batch already took.
CreateOrganizationPlanDeduplicating(files, F, c) ==
    [i \in 1..Len(files) |->
        IF \E j \in 1..(i - 1) :
               GenerateDestinationPath(files[j]) = GenerateDestinationPath(files[i])
        THEN [PlanFor(files[i], F, c) EXCEPT !.conflict = TRUE, !.skip = TRUE,
                                            !.skip_reason = "Duplicate destination"]
        ELSE PlanFor(files[i], F, c)]

\* create_organization_plan: one plan per record, in the order given, each
\* decided against the disk alone.
CreateOrganizationPlan(files, F, c) ==
    [i \in 1..Len(files) |-> PlanFor(files[i], F, c)]

(***************************************************************************)
(* organizer.py: execution of one plan.  A stage is [fs, dirs, txn, err];  *)
(* once err is set (an exception was raised) the later stages are skipped. *)
(***************************************************************************)
\* As BackupName, with the backup kept in a folder beside the source.
BackupNameBesideSource(src, t) == <<src[1], "backups", src[3], t>>

\* _create_backup names the backup <stem>_<timestamp><suffix>.
BackupName(src, t) == <<BackupPath, "", src[3], t>>

\* destination_path.parent.mkdir(parents=True, exist_ok=True)
StageMkdir(s, plan, fault) ==
    IF fault = "mkdir" THEN [s EXCEPT !.err = "EACCES"]
    ELSE [s EXCEPT !.dirs = @ \cup {Parent(plan.destination_path)}]

\* As StageBackup, with backups made before moves only.
StageBackupMoveOnly(s, plan, c, t, fault) ==
    LET src == plan.file_metadata.source_path
        bp == BackupName(src, t)
        made == [s EXCEPT !.dirs = @ \cup {<<BackupPath, "">>}]
    IN  IF s.err # None \/ ~c.create_backup \/ plan.operation # "move" THEN s
        ELSE IF ~Exists(s.fs, src) THEN [made EXCEPT !.err = "ENOENT"]
        ELSE IF fault = "backup" THEN [made EXCEPT !.err = "ENOSPC"]
        ELSE [made EXCEPT !.fs = Put(@, bp, s.fs[src]), !.txn.backup_path = bp]

\* if create_backup: transaction.backup_path = self._create_backup(source)
StageBackup(s, plan, c, t, fault) ==
    LET src == plan.file_metadata.source_path
        bp == BackupName(src, t)
        made == [s EXCEPT !.dirs = @ \cup {<<BackupPath, "">>}]
    IN  IF s.err # None \/ ~c.create_backup THEN s
        ELSE IF ~Exists(s.fs, src) THEN [made EXCEPT !.err = "ENOENT"]
        ELSE IF fault = "backup" THEN [made EXCEPT !.err = "ENOSPC"]
        ELSE [made EXCEPT !.fs = Put(@, bp, s.fs[src]), !.txn.backup_path = bp]

\* As StageOperation, refusing to write over an existing destination.
StageOperationRefusingExisting(s, plan, fault) ==
    LET src == plan.file_metadata.source_path
        dst == plan.destination_path
    IN  IF s.err # None THEN s
        ELSE IF ~Exists(s.fs, src) THEN [s EXCEPT !.err = "ENOENT"]
        ELSE IF fault = "op" \/ Exists(s.fs, dst) THEN [s EXCEPT !.err = "EACCES"]
        ELSE IF plan.operation = "copy"
             THEN [s EXCEPT !.fs = Put(@, dst, s.fs[src])]
             ELSE [s EXCEPT !.fs = Remove(Put(@, dst, s.fs[src]), src)]

\* shutil.copy2 (source kept) or shutil.move (source removed)
StageOperation(s, plan, fault) ==
    LET src == plan.file_metadata.source_path
        dst == plan.destination_path
    IN  IF s.err # None THEN s
        ELSE IF ~Exists(s.fs, src) THEN [s EXCEPT !.err = "ENOENT"]
        ELSE IF fault = "op" THEN [s EXCEPT !.err = "EACCES"]
        ELSE IF plan.operation = "copy"
             THEN [s EXCEPT !.fs = Put(@, dst, s.fs[src])]
             ELSE [s EXCEPT !.fs = Remove(Put(@, dst, s.fs[src]), src)]

\* if preserve_timestamps: source_path.stat(); shutil.copystat(source, dest)
StageTimestamps(s, plan, c, fault) ==
    LET src == plan.file_metadata.source_path
        dst == plan.destination_path
    IN  IF s.err # None \/ ~c.preserve_timestamps THEN s
        ELSE IF ~Exists(s.fs, src) THEN [s EXCEPT !.err = "ENOENT"]
        ELSE IF fault = "stat" THEN [s EXCEPT !.err = "EPERM"]
        ELSE [s EXCEPT !.fs = Put(@, dst, [@[dst] EXCEPT !.mtime = s.fs[src].mtime])]

\* The Transaction execute_plan creates before it attempts a plan.
NewTransaction(plan, t) ==
    [timestamp |-> t, operation |-> plan.operation,
     source_path |-> plan.file_metadata.source_path,
     destination_path |-> plan.destination_path,
     success |-> FALSE, error |-> None, backup_path |-> NoPath]

\* The try block of execute_plan: the four stages in order.
TryBlock(plan, F, D, c, t, fault) ==
    LET s0 == [fs |-> F, dirs |-> D, txn |-> NewTransaction(plan, t), err |-> None]
        s1 == StageMkdir(s0, plan, fault)
        s2 == StageBackup(s1, plan, c, t, fault)
        s3 == StageOperation(s2, plan, fault)
    IN  StageTimestamps(s3, plan, c, fault)

\* As ExecuteOne, with the directory creation left outside the try block.
ExecuteOneMkdirOutsideTry(plan, F, D, c, t, fault) ==
    LET s == TryBlock(plan, F, D, c, t, fault)
    IN  [fs |-> s.fs, dirs |-> s.dirs, raised |-> (fault = "mkdir"),
         txn |-> [s.txn EXCEPT !.success = (s.err = None), !.error = s.err]]

\* As ExecuteOne, with a handler that swallows the exception without
\* recording it.
ExecuteOneErrorDropped(plan, F, D, c, t, fault) ==
    LET s == TryBlock(plan, F, D, c, t, fault)
    IN  [fs |-> s.fs, dirs |-> s.dirs, raised |-> FALSE,
         txn |-> [s.txn EXCEPT !.success = (s.err = None)]]

\* The try block with its handler (except Exception): the Transaction is
\* marked successful only if no stage raised, and carries the error
\* otherwise; nothing is raised to the caller.
ExecuteOne(plan, F, D, c, t, fault) ==
    LET s == TryBlock(plan, F, D, c, t, fault)
    IN  [fs |-> s.fs, dirs |-> s.dirs, raised |-> FALSE,
         txn |-> [s.txn EXCEPT !.success = (s.err = None), !.error = s.err]]

\* A dry run's Transaction.
DryTransaction(plan, t) == [NewTransaction(plan, t) EXCEPT !.success = TRUE]

\* As Skips, with the check of plan.skip left out.
SkipsNever(plan) == FALSE

\* if plan.skip: continue
Skips(plan) == plan.skip

\* As RunPlan, with the destination directory created before dry_run is
\* looked at.
RunPlanMkdirBeforeDryCheck(plan, F, D, c, t, fault, dryRun) ==
    IF dryRun
    THEN [fs |-> F, dirs |-> D \cup {Parent(plan.destination_path)},
          raised |-> FALSE, txn |-> DryTransaction(plan, t)]
    ELSE ExecuteOne(plan, F, D, c, t, fault)

\* The body of execute_plan's loop for a plan that is not skipped.
RunPlan(plan, F, D, c, t, fault, dryRun) ==
    IF dryRun
    THEN [fs |-> F, dirs |-> D, raised |-> FALSE, txn |-> DryTransaction(plan, t)]
    ELSE ExecuteOne(plan, F, D, c, t, fault)

(***************************************************************************)
(* safety.py: the transaction log.                                         *)
(***************************************************************************)
Abs(x) == IF x < 0 THEN -x ELSE x

\* As BatchWalk, with each entry compared to the entry after it.
RECURSIVE BatchWalkAdjacent(_, _, _)
BatchWalkAdjacent(all, i, last_timestamp) ==
    IF i = 0 THEN <<>>
    ELSE LET t == FromDict(all[i])
             next == IF i = Len(all) THEN last_timestamp ELSE all[i + 1].timestamp
         IN  IF Abs(t.timestamp - next) < BatchWindow
             THEN Append(BatchWalkAdjacent(all, i - 1, last_timestamp), t)
             ELSE <<>>

\* As BatchWalk, with a window that includes its end.
RECURSIVE BatchWalkInclusive(_, _, _)
BatchWalkInclusive(all, i, last_timestamp) ==
    IF i = 0 THEN <<>>
    ELSE LET t == FromDict(all[i])
         IN  IF Abs(t.timestamp - last_timestamp) <= BatchWindow
             THEN Append(BatchWalkInclusive(all, i - 1, last_timestamp), t)
             ELSE <<>>

\* The loop of get_last_batch over reversed(all_transactions), from
\* position i down: an entry within the window of the last timestamp is
\* put at the front of the batch, the first one outside ends the walk.
RECURSIVE BatchWalk(_, _, _)
BatchWalk(all, i, last_timestamp) ==
    IF i = 0 THEN <<>>
    ELSE LET t == FromDict(all[i])
         IN  IF Abs(t.timestamp - last_timestamp) < BatchWindow
             THEN Append(BatchWalk(all, i - 1, last_timestamp), t)
             ELSE <<>>

GetLastBatch(all) ==
    IF all = <<>> THEN <<>>
    ELSE BatchWalk(all, Len(all), FromDict(all[Len(all)]).timestamp)

\* The body of undo_last_batch's loop for one transaction; raises says the
\* environment makes the file operation raise.  how names the branch taken.
UndoOne(t, F, raises) ==
    LET src == t.source_path
        dst == t.destination_path
        bak == t.backup_path
    IN  IF ~t.success THEN [fs |-> F, how |-> "skipped"]
        ELSE IF ~Exists(F, dst) THEN [fs |-> F, how |-> "absent"]
        ELSE IF raises THEN [fs |-> F, how |-> "failed"]
        ELSE IF t.operation = "copy"
             THEN [fs |-> Remove(F, dst), how |-> "unlinked"]
        ELSE IF bak # NoPath /\ Exists(F, bak)
             THEN [fs |-> Put(F, src, F[bak]), how |-> "restored"]
             ELSE [fs |-> Remove(Put(F, src, F[dst]), dst), how |-> "movedback"]

\* As UndoLoop, taking the batch from its first transaction to its last.
RECURSIVE UndoLoopForward(_, _, _, _, _)
UndoLoopForward(batch, i, F, bad, steps) ==
    IF i = 0 THEN [fs |-> F, steps |-> steps]
    ELSE LET k == Len(batch) - i + 1
             r == UndoOne(batch[k], F, k \in bad)
             src == batch[k].source_path
             step == [how |-> r.how,
                      srcAfter |-> IF Exists(r.fs, src) THEN r.fs[src].data ELSE None,
                      dstAfter |-> Exists(r.fs, batch[k].destination_path)]
         IN  UndoLoopForward(batch, i - 1, r.fs, bad, [steps EXCEPT ![k] = step])

\* for transaction in reversed(batch): position i down to 1.  steps keeps,
\* per position of the batch, the branch taken and the source's data right
\* after the transaction was processed.
RECURSIVE UndoLoop(_, _, _, _, _)
UndoLoop(batch, i, F, bad, steps) ==
    IF i = 0 THEN [fs |-> F, steps |-> steps]
    ELSE LET r == UndoOne(batch[i], F, i \in bad)
             src == batch[i].source_path
             step == [how |-> r.how,
                      srcAfter |-> IF Exists(r.fs, src) THEN r.fs[src].data ELSE None,
                      dstAfter |-> Exists(r.fs, batch[i].destination_path)]
         IN  UndoLoop(batch, i - 1, r.fs, bad, [steps EXCEPT ![i] = step])

CountHow(steps, hows) == Cardinality({i \in DOMAIN steps : steps[i].how \in hows})

(***************************************************************************)
(* The state machine.                                                      *)
(***************************************************************************)
Configs ==
    [mode : Modes, create_backup : BOOLEAN, preserve_timestamps : BOOLEAN,
     conflict_resolution : Strategies]

\* No pure helper is being called.
NoCall == [op |-> None]

\* No logger operation was made on a damaged log file.
NoOp == [op |-> None, file |-> "list",
         out |-> [raised |-> FALSE, result |-> <<>>, file |-> "list", log |-> <<>>],
         asEmpty |-> [raised |-> FALSE, result |-> <<>>, file |-> "list", log |-> <<>>]]

NoUndo == [ran |-> FALSE, batch |-> <<>>, origs |-> <<>>, steps |-> <<>>,
           successful |-> 0, failed |-> 0, preLog |-> <<>>, preMeta |-> <<>>,
           firstSinceLog |-> FALSE, undone |-> FALSE]

\* The record of an undo is kept only in the state right after it; that an
\* undo ran since the last log_transactions is kept.
Forget(u) == [NoUndo EXCEPT !.undone = u.undone]

InitWith(configs, pres, budgets) ==
    /\ \E pre \in pres :
          /\ fs = [p \in Sources \cup pre |->
                      IF p \in Sources THEN InitialFile(p) ELSE OldFile]
          /\ dirs = IF pre = {} THEN {} ELSE {<<BasePath, "docs">>}
    /\ cfg \in configs
    /\ now = 0
    /\ log = <<>>
    /\ plans = <<>>
    /\ pc = "idle"
    /\ idx = 1
    /\ txns = <<>>
    /\ dry = FALSE
    /\ \E b \in budgets : runsLeft = b[1] /\ dryLeft = b[2]
    /\ faultsUsed = 0
    /\ preFs = fs
    /\ preDirs = dirs
    /\ fresh = FALSE
    /\ freshRun = FALSE
    /\ meta = <<>>
    /\ logMeta = <<>>
    /\ logged = 0
    /\ undoInfo = NoUndo
    /\ logFile = "list"
    /\ logOp = NoOp

\* Any configuration, any pre-existing organized files.
Init == InitWith(Configs, PreExisting, Budgets) /\ pure = NoCall

\* The scanners walk the source trees in a fixed order.
WalkOrder(p) == IF p = SrcA THEN 1 ELSE IF p = SrcB THEN 2 ELSE 3

Scans(F) ==
    {s \in UNION {[1..n -> Sources \cap DOMAIN F] : n \in 1..MaxFiles} :
        \A i, j \in DOMAIN s : i < j => WalkOrder(s[i]) < WalkOrder(s[j])}

\* A scan followed by create_organization_plan over the files found.
CreatePlan ==
    /\ pc = "idle"
    /\ runsLeft + dryLeft > 0
    /\ \E found \in Scans(fs) :
          plans' = CreateOrganizationPlan(
                      [i \in DOMAIN found |-> FromPath(fs, found[i])], fs, cfg)
    /\ fresh' = TRUE
    /\ undoInfo' = Forget(undoInfo)
    /\ UNCHANGED <<fs, dirs, now, log, cfg, pc, idx, txns, dry, runsLeft, dryLeft,
                   faultsUsed, preFs, preDirs, freshRun, meta, logMeta, logged,
                   logFile, logOp>>
    /\ UNCHANGED pure

\* Entry of execute_plan(plans, dry_run).
StartExecute ==
    /\ pc = "idle"
    /\ plans # <<>>
    /\ \E d \in BOOLEAN :
          /\ IF d THEN dryLeft > 0 ELSE runsLeft > 0
          /\ dry' = d
          /\ dryLeft' = IF d THEN dryLeft - 1 ELSE dryLeft
          /\ runsLeft' = IF d THEN runsLeft ELSE runsLeft - 1
          /\ fresh' = (fresh /\ d)
    /\ pc' = "exec"
    /\ idx' = 1
    /\ txns' = <<>>
    /\ meta' = <<>>
    /\ preFs' = fs
    /\ preDirs' = dirs
    /\ freshRun' = fresh
    /\ undoInfo' = Forget(undoInfo)
    /\ UNCHANGED <<fs, dirs, now, log, cfg, plans, faultsUsed, logMeta, logged,
                   logFile, logOp>>
    /\ UNCHANGED pure

\* The faults the environment can inject into a step under configuration c.
FaultsFor(c, dryRun, used) ==
    IF dryRun \/ used >= MaxFaults THEN {"none"}
    ELSE {"none", "mkdir", "op"}
         \cup (IF c.create_backup THEN {"backup"} ELSE {})
         \cup (IF c.preserve_timestamps THEN {"stat"} ELSE {})

\* One iteration of execute_plan's loop; the return after the last one.
ExecStep ==
    /\ pc = "exec"
    /\ idx <= Len(plans)
    /\ LET plan == plans[idx] IN
         IF Skips(plan)
         THEN /\ pc' = IF idx = Len(plans) THEN "done" ELSE "exec"
              /\ UNCHANGED <<fs, dirs, now, txns, meta, faultsUsed>>
         ELSE \E d \in Deltas, fault \in FaultsFor(cfg, dry, faultsUsed) :
                /\ now + d <= MaxTime
                /\ now' = now + d
                /\ faultsUsed' = IF fault = "none" THEN faultsUsed ELSE faultsUsed + 1
                /\ LET r == RunPlan(plan, fs, dirs, cfg, now', fault, dry)
                   IN  /\ fs' = r.fs
                       /\ dirs' = r.dirs
                       /\ txns' = IF r.raised THEN txns ELSE Append(txns, r.txn)
                       /\ pc' = IF r.raised THEN "raised"
                                ELSE IF idx = Len(plans) THEN "done" ELSE "exec"
                /\ meta' = Append(meta,
                      [fault |-> fault,
                       plan |-> idx,
                       orig |-> IF Exists(fs, plan.file_metadata.source_path)
                                THEN fs[plan.file_metadata.source_path].data
                                ELSE None,
                       run |-> logged + 1])
    /\ idx' = idx + 1
    /\ UNCHANGED <<log, cfg, plans, dry, runsLeft, dryLeft, preFs, preDirs, fresh,
                   freshRun, logMeta, logged, undoInfo, logFile, logOp>>
    /\ UNCHANGED pure

\* As LogTransactionsOp, saving the new dicts in place of the list loaded.
LogTransactionsOpReplacing(existing, transactions) ==
    [i \in DOMAIN transactions |-> ToDict(transactions[i])]

\* log_transactions: load, extend with the dicts, save.
LogTransactionsOp(existing, transactions) ==
    existing \o [i \in DOMAIN transactions |-> ToDict(transactions[i])]

\* execute_plan has returned: its locals are gone.
Returned ==
    /\ pc' = "idle"
    /\ idx' = 1
    /\ txns' = <<>>
    /\ meta' = <<>>
    /\ dry' = FALSE
    /\ preFs' = fs
    /\ preDirs' = dirs
    /\ freshRun' = FALSE
    /\ UNCHANGED <<fs, dirs, now, cfg, plans, runsLeft, dryLeft, faultsUsed, fresh>>

\* cli.organize after a real run: logger.log_transactions(transactions).
LogTransactions ==
    /\ pc = "done"
    /\ ~dry
    /\ logFile = "list"
    /\ log' = LogTransactionsOp(log, txns)
    /\ logMeta' = logMeta \o meta
    /\ logged' = logged + 1
    /\ undoInfo' = NoUndo
    /\ UNCHANGED <<logFile, logOp>>
    /\ Returned
    /\ UNCHANGED pure

\* execute_plan's caller keeps the transactions without logging them (a dry
\* run of the cli, or a direct caller of the organizer).
ReturnOnly ==
    /\ pc = "done"
    /\ UNCHANGED <<log, logMeta, logged, undoInfo, logFile, logOp>>
    /\ Returned
    /\ UNCHANGED pure

\* As RemainingLog, dropping the last entry only.
RemainingLogDropsOne(all, batch) ==
    IF Len(batch) > 0 THEN SubSeq(all, 1, Len(all) - 1) ELSE all

\* What undo_last_batch leaves in the log: all_transactions[:-batch_size].
RemainingLog(all, batch) ==
    IF Len(batch) > 0 THEN SubSeq(all, 1, Len(all) - Len(batch)) ELSE all

\* cli.undo: logger.undo_last_batch(), the whole handler.
UndoLastBatch ==
    /\ pc = "idle"
    /\ logFile = "list"
    /\ log # <<>>
    /\ LET batch == GetLastBatch(log) IN
         \E bad \in SUBSET {i \in DOMAIN batch :
                               batch[i].success /\ faultsUsed < MaxFaults} :
            /\ Cardinality(bad) + faultsUsed <= MaxFaults
            /\ LET r == UndoLoop(batch, Len(batch), fs, bad,
                                 [i \in DOMAIN batch |-> [how |-> "pending",
                                     srcAfter |-> None, dstAfter |-> FALSE]])
               IN  /\ fs' = r.fs
                   /\ faultsUsed' = faultsUsed + CountHow(r.steps, {"failed"})
                   /\ undoInfo' =
                        [ran |-> TRUE,
                         batch |-> batch,
                         origs |-> SubSeq(logMeta, Len(log) - Len(batch) + 1, Len(log)),
                         steps |-> r.steps,
                         successful |-> CountHow(r.steps, {"unlinked", "restored", "movedback"}),
                         failed |-> CountHow(r.steps, {"failed"}),
                         preLog |-> log,
                         preMeta |-> logMeta,
                         firstSinceLog |-> ~undoInfo.undone,
                         undone |-> TRUE]
            /\ log' = RemainingLog(log, batch)
            /\ logMeta' = SubSeq(logMeta, 1, Len(log) - Len(batch))
    /\ fresh' = FALSE
    /\ preFs' = fs'
    /\ UNCHANGED <<dirs, now, cfg, plans, pc, idx, txns, dry, runsLeft, dryLeft,
                   preDirs, freshRun, meta, logged, logFile, logOp>>
    /\ UNCHANGED pure

Next ==
    \/ CreatePlan
    \/ StartExecute
    \/ ExecStep
    \/ LogTransactions
    \/ ReturnOnly
    \/ UndoLastBatch

Spec == Init /\ [][Next]_vars

\* The log over several real runs: copies under the default strategy,
\* without backups and without the timestamp step.
LogConfigs ==
    {c \in Configs : c.mode = "copy" /\ ~c.create_backup /\ ~c.preserve_timestamps
                     /\ c.conflict_resolution = "rename"}

InitLog == InitWith(LogConfigs, {{}}, LogBudgets) /\ pure = NoCall

SpecLog == InitLog /\ [][Next]_vars

\* Planning against organized files of different ages: the files that
\* exist before the first run were modified at one of OldTimes; one real
\* run, no backups.
OldTimes == {1, 2}

PlanConfigs == {c \in Configs : ~c.create_backup /\ c.preserve_timestamps}

InitPlan ==
    /\ \E pre \in PreExisting, m \in OldTimes :
          /\ fs = [p \in Sources \cup pre |->
                      IF p \in Sources THEN InitialFile(p)
                      ELSE [OldFile EXCEPT !.mtime = m]]
          /\ dirs = IF pre = {} THEN {} ELSE {<<BasePath, "docs">>}
    /\ cfg \in PlanConfigs
    /\ now = 0
    /\ log = <<>>
    /\ plans = <<>>
    /\ pc = "idle"
    /\ idx = 1
    /\ txns = <<>>
    /\ dry = FALSE
    /\ runsLeft = 1
    /\ dryLeft = 0
    /\ faultsUsed = 0
    /\ preFs = fs
    /\ preDirs = dirs
    /\ fresh = FALSE
    /\ freshRun = FALSE
    /\ meta = <<>>
    /\ logMeta = <<>>
    /\ logged = 0
    /\ undoInfo = NoUndo
    /\ logFile = "list"
    /\ logOp = NoOp
    /\ pure = NoCall

SpecPlan == InitPlan /\ [][Next]_vars

(***************************************************************************)
(* safety.py on a damaged log file.  The file is "missing", "unparseable"  *)
(* (not JSON), "not_a_list" (JSON, an object such as {"a": 1}) or          *)
(* "bad_record" (a JSON list whose first entry is not a record, e.g. 1,    *)
(* followed by the records of log).  An outcome is [raised, result, file,  *)
(* log]: whether the call raised, what it returned, the file afterwards.   *)
(***************************************************************************)
DamagedForms == {"missing", "unparseable", "not_a_list", "bad_record"}

\* _load_transactions: json.load of the file; [] on JSONDecodeError and on
\* FileNotFoundError, whatever json.load returns otherwise.
LoadTransactions(file, entries) ==
    IF file \in {"missing", "unparseable"}
    THEN [kind |-> "list", entries |-> <<>>]
    ELSE [kind |-> file, entries |-> entries]

Raises(file, entries) ==
    [raised |-> TRUE, result |-> <<>>, file |-> file, log |-> entries]

Returns(result, file, entries) ==
    [raised |-> FALSE, result |-> result, file |-> file, log |-> entries]

\* log_transactions: existing.extend(...) needs a list; the result is saved.
LogTransactionsOn(file, entries, transactions) ==
    LET v == LoadTransactions(file, entries)
    IN  IF v.kind = "not_a_list" THEN Raises(file, entries)
        ELSE Returns(<<>>, v.kind, LogTransactionsOp(v.entries, transactions))

\* get_recent_transactions: Transaction.from_dict of every entry, newest
\* first (the logs here are shorter than the limit).
GetRecentTransactionsOn(file, entries) ==
    LET v == LoadTransactions(file, entries)
        n == Len(v.entries)
    IN  IF v.kind # "list" THEN Raises(file, entries)
        ELSE Returns([i \in 1..n |-> FromDict(v.entries[n - i + 1])], file, entries)

\* get_last_batch: all_transactions[-1] of an object raises; the walk over
\* a list raises when it reaches the entry that is not a record.
GetLastBatchOn(file, entries) ==
    LET v == LoadTransactions(file, entries)
        batch == GetLastBatch(v.entries)
    IN  IF v.kind = "not_a_list" THEN Raises(file, entries)
        ELSE IF v.kind = "bad_record" /\ Len(batch) = Len(v.entries)
             THEN Raises(file, entries)
             ELSE Returns(batch, file, entries)

\* clear_old_transactions(days=30): reads t['timestamp'] of every entry;
\* no entry of the model is 30 days old, so none is removed; saves.
ClearOldTransactionsOn(file, entries) ==
    LET v == LoadTransactions(file, entries)
    IN  IF v.kind # "list" THEN Raises(file, entries)
        ELSE Returns(0, "list", v.entries)

\* The environment damages the log file.
DamageLog ==
    /\ pc = "idle"
    /\ logFile = "list"
    /\ faultsUsed < MaxFaults
    /\ logFile' \in DamagedForms
    /\ faultsUsed' = faultsUsed + 1
    /\ log' = <<>>
    /\ logMeta' = <<>>
    /\ undoInfo' = Forget(undoInfo)
    /\ UNCHANGED <<fs, dirs, now, cfg, plans, pc, idx, txns, dry, runsLeft, dryLeft,
                   preFs, preDirs, fresh, freshRun, meta, logged, logOp>>
    /\ UNCHANGED pure

\* cli.organize after a real run, the log file being damaged.
LogTransactionsDamaged ==
    /\ pc = "done"
    /\ ~dry
    /\ logFile # "list"
    /\ LET out == LogTransactionsOn(logFile, log, txns)
       IN  /\ logOp' = [op |-> "log_transactions", file |-> logFile, out |-> out,
                        asEmpty |-> LogTransactionsOn("list", <<>>, txns)]
           /\ logFile' = out.file
           /\ log' = out.log
           /\ logMeta' = IF out.raised THEN logMeta ELSE logMeta \o meta
           /\ logged' = IF out.raised THEN logged ELSE logged + 1
    /\ undoInfo' = NoUndo
    /\ Returned
    /\ UNCHANGED pure

\* get_recent_transactions(), the log file being damaged.
GetRecentTransactionsDamaged ==
    /\ pc = "idle"
    /\ logFile # "list"
    /\ logOp' = [op |-> "get_recent_transactions", file |-> logFile,
                 out |-> GetRecentTransactionsOn(logFile, log),
                 asEmpty |-> GetRecentTransactionsOn("list", <<>>)]
    /\ UNCHANGED <<fs, dirs, now, log, cfg, plans, pc, idx, txns, dry, runsLeft,
                   dryLeft, faultsUsed, preFs, preDirs, fresh, freshRun, meta,
                   logMeta, logged, undoInfo, logFile>>
    /\ UNCHANGED pure

\* get_last_batch(), the log file being damaged.
GetLastBatchDamaged ==
    /\ pc = "idle"
    /\ logFile # "list"
    /\ logOp' = [op |-> "get_last_batch", file |-> logFile,
                 out |-> GetLastBatchOn(logFile, log),
                 asEmpty |-> GetLastBatchOn("list", <<>>)]
    /\ UNCHANGED <<fs, dirs, now, log, cfg, plans, pc, idx, txns, dry, runsLeft,
                   dryLeft, faultsUsed, preFs, preDirs, fresh, freshRun, meta,
                   logMeta, logged, undoInfo, logFile>>
    /\ UNCHANGED pure

\* undo_last_batch(), the log file being damaged: it raises where
\* get_last_batch does, returns (0, 0) without saving on an empty batch,
\* and otherwise undoes the batch and saves the entries before it.
UndoLastBatchDamaged ==
    /\ pc = "idle"
    /\ logFile # "list"
    /\ LET got == GetLastBatchOn(logFile, log)
           batch == got.result
           r == UndoLoop(batch, Len(batch), fs, {},
                         [i \in DOMAIN batch |-> [how |-> "pending",
                             srcAfter |-> None, dstAfter |-> FALSE]])
           out == IF got.raised THEN got
                  ELSE IF batch = <<>> THEN Returns(<<0, 0>>, logFile, log)
                  ELSE Returns(<<CountHow(r.steps, {"unlinked", "restored", "movedback"}), 0>>,
                               logFile, RemainingLog(log, batch))
       IN  /\ logOp' = [op |-> "undo_last_batch", file |-> logFile, out |-> out,
                        asEmpty |-> Returns(<<0, 0>>, "list", <<>>)]
           /\ fs' = IF got.raised THEN fs ELSE r.fs
           /\ log' = out.log
           /\ logMeta' = SubSeq(logMeta, 1, Len(out.log))
    /\ fresh' = FALSE
    /\ preFs' = fs'
    /\ undoInfo' = Forget(undoInfo)
    /\ UNCHANGED <<dirs, now, cfg, plans, pc, idx, txns, dry, runsLeft, dryLeft,
                   faultsUsed, preDirs, freshRun, meta, logged, logFile>>
    /\ UNCHANGED pure

\* clear_old_transactions(), the log file being damaged.
ClearOldTransactionsDamaged ==
    /\ pc = "idle"
    /\ logFile # "list"
    /\ LET out == ClearOldTransactionsOn(logFile, log)
       IN  /\ logOp' = [op |-> "clear_old_transactions", file |-> logFile,
                        out |-> out,
                        asEmpty |-> ClearOldTransactionsOn("list", <<>>)]
           /\ logFile' = out.file
           /\ log' = out.log
    /\ UNCHANGED <<fs, dirs, now, cfg, plans, pc, idx, txns, dry, runsLeft,
                   dryLeft, faultsUsed, preFs, preDirs, fresh, freshRun, meta,
                   logMeta, logged, undoInfo>>
    /\ UNCHANGED pure

NextDamaged ==
    \/ CreatePlan
    \/ StartExecute
    \/ ExecStep
    \/ LogTransactions
    \/ ReturnOnly
    \/ UndoLastBatch
    \/ DamageLog
    \/ LogTransactionsDamaged
    \/ GetRecentTransactionsDamaged
    \/ GetLastBatchDamaged
    \/ UndoLastBatchDamaged
    \/ ClearOldTransactionsDamaged

\* One real run of copies, with a log file that may get damaged.
InitDamaged == InitWith(LogConfigs, {{}}, {<<1, 0>>}) /\ pure = NoCall

SpecDamaged == InitDamaged /\ [][NextDamaged]_vars

(***************************************************************************)
(* organizer.py: the helpers that work on the text of names.  A string is  *)
(* a sequence of characters; an absent (None) or empty string is <<>>,     *)
(* which is how the code's truth tests treat them.                         *)
(***************************************************************************)
LowerChar(ch) ==
    CASE ch = "A" -> "a" [] ch = "B" -> "b" [] ch = "P" -> "p"
      [] ch = "Q" -> "q" [] ch = "U" -> "u" [] OTHER -> ch

\* str.lower()
Lower(s) == [i \in DOMAIN s |-> LowerChar(s[i])]

\* needle in haystack
Contains(haystack, needle) ==
    \E i \in 0..(Len(haystack) - Len(needle)) :
        SubSeq(haystack, i + 1, i + Len(needle)) = needle

\* The characters \w matches, and the ones [-\s] matches.
WordChars == {"a", "b", "p", "q", "u", "A", "B", "P", "Q", "U", "_"}
Separators == {"-", " "}

RECURSIVE DropSeparators(_)
DropSeparators(s) ==
    IF s # <<>> /\ Head(s) \in Separators THEN DropSeparators(Tail(s)) ELSE s

\* re.sub(r'[-\s]+', '-', s)
RECURSIVE Collapse(_)
Collapse(s) ==
    IF s = <<>> THEN <<>>
    ELSE IF Head(s) \in Separators
         THEN <<"-">> \o Collapse(DropSeparators(Tail(s)))
         ELSE <<Head(s)>> \o Collapse(Tail(s))

\* str.strip('-_')
RECURSIVE Strip(_)
Strip(s) ==
    IF s = <<>> THEN <<>>
    ELSE IF Head(s) \in {"-", "_"} THEN Strip(Tail(s))
    ELSE IF s[Len(s)] \in {"-", "_"} THEN Strip(SubSeq(s, 1, Len(s) - 1))
    ELSE s

\* _clean_project_name
CleanProjectName(name) ==
    LET cleaned == SelectSeq(name, LAMBDA ch : ch \in WordChars \cup Separators)
    IN  Strip(Collapse(cleaned))

\* The loop of _detect_project over the patterns, from pattern i on: the
\* index of the first pattern one of whose keywords is in search_text, 0 if
\* there is none.
RECURSIVE FirstMatch(_, _, _)
FirstMatch(patterns, i, search_text) ==
    IF i > Len(patterns) THEN 0
    ELSE IF \E k \in DOMAIN patterns[i].keywords :
                Contains(search_text, Lower(patterns[i].keywords[k]))
         THEN i
         ELSE FirstMatch(patterns, i + 1, search_text)

\* As DetectProjectText, with the keyword patterns looked at first.
DetectProjectKeywordsFirst(file_meta, patterns, default) ==
    LET search_text == Lower(file_meta.filename \o <<" ">> \o file_meta.parent_folder)
        m == FirstMatch(patterns, 1, search_text)
    IN  IF m # 0 THEN patterns[m].name
        ELSE IF file_meta.github_repo # <<>>
             THEN CleanProjectName(file_meta.github_repo)
        ELSE IF file_meta.parent_folder # <<>>
             THEN CleanProjectName(file_meta.parent_folder)
        ELSE default

\* _detect_project on the text of the record's names.
DetectProjectText(file_meta, patterns, default) ==
    LET search_text == Lower(file_meta.filename \o <<" ">> \o file_meta.parent_folder)
        m == FirstMatch(patterns, 1, search_text)
    IN  IF file_meta.github_repo # <<>>
        THEN CleanProjectName(file_meta.github_repo)
        ELSE IF m # 0 THEN patterns[m].name
        ELSE IF file_meta.parent_folder # <<>>
             THEN CleanProjectName(file_meta.parent_folder)
        ELSE default

\* The records and configurations _detect_project is called with.
Repos == {<<>>, <<"A", "!", "b">>, <<"-", "a", " ", "-", "b", "_">>}
Filenames == {<<"a">>, <<"A", "b">>, <<"b", "a">>}
ParentFolders == {<<>>, <<"a", " ", "b">>, <<"_", "B", "!">>}
PatternLists ==
    {<<>>,
     <<[name |-> <<"P">>, keywords |-> <<>>]>>,
     <<[name |-> <<"P">>, keywords |-> << <<"A", "B">> >>]>>,
     <<[name |-> <<"P">>, keywords |-> << <<"b", "b">> >>],
       [name |-> <<"Q">>, keywords |-> << <<"b", "b">>, <<"B">> >>],
       [name |-> <<"P">>, keywords |-> << <<"a">> >>]>>,
     <<[name |-> <<"Q">>, keywords |-> << <<"a", " ", "_">> >>]>>}
DefaultProject == <<"U">>

DetectProjectCalls ==
    {[op |-> "_detect_project", returned |-> FALSE, ret |-> <<>>,
      file_meta |-> [github_repo |-> r, filename |-> f, parent_folder |-> d],
      patterns |-> ps] : r \in Repos, f \in Filenames, d \in ParentFolders,
                         ps \in PatternLists}

\* Everything but the call of a pure helper.
pipeline == <<fs, dirs, now, log, cfg, plans, pc, idx, txns, dry, runsLeft, dryLeft,
              faultsUsed, preFs, preDirs, fresh, freshRun, meta, logMeta, logged,
              undoInfo, logFile, logOp>>

\* create_organization_plan calls _detect_project for a record without
\* project.
DetectProjectCall ==
    /\ pure.op = "_detect_project"
    /\ ~pure.returned
    /\ pure' = [pure EXCEPT !.returned = TRUE,
                            !.ret = DetectProjectText(pure.file_meta, pure.patterns,
                                                      DefaultProject)]
    /\ UNCHANGED pipeline

\* text[:k], k possibly negative
Slice(text, k) ==
    IF k >= 0 THEN SubSeq(text, 1, IF k < Len(text) THEN k ELSE Len(text))
    ELSE SubSeq(text, 1, IF Len(text) + k > 0 THEN Len(text) + k ELSE 0)

\* str.replace(' ', replace_spaces)
RECURSIVE ReplaceSpaces(_, _)
ReplaceSpaces(text, by) ==
    IF text = <<>> THEN <<>>
    ELSE (IF Head(text) = " " THEN by ELSE <<Head(text)>>)
         \o ReplaceSpaces(Tail(text), by)

\* _apply_naming_convention with the template {original_name}: the
\* transformations, the extension, the maximal length.
ApplyNamingConvention(file_meta, naming) ==
    LET templated == file_meta.stem
        lowered == IF naming.lowercase THEN Lower(templated) ELSE templated
        replaced == IF naming.replace_spaces # <<>>
                    THEN ReplaceSpaces(lowered, naming.replace_spaces)
                    ELSE lowered
        filename == replaced \o file_meta.extension
        stem_max == naming.max_length - Len(file_meta.extension)
    IN  IF Len(filename) > naming.max_length
        THEN Slice(filename, stem_max) \o file_meta.extension
        ELSE filename

\* The records and naming options _apply_naming_convention is called with.
Stems == {<<"a">>, <<"A", " ", "b">>, <<"a", "b", "A", "B", "a", "b", "a", "b">>}
Extensions == {<<>>, <<".", "t", "x", "t">>}
MaxLengths == {2, 4, 6, 10, 255}

NamingCalls ==
    {[op |-> "_apply_naming_convention", returned |-> FALSE, ret |-> <<>>,
      file_meta |-> [stem |-> st, extension |-> e],
      naming |-> [lowercase |-> lc, replace_spaces |-> rs, max_length |-> m]] :
        st \in Stems, e \in Extensions, lc \in BOOLEAN, rs \in {<<>>, <<"_">>},
        m \in MaxLengths}

\* _generate_destination_path calls _apply_naming_convention.
ApplyNamingConventionCall ==
    /\ pure.op = "_apply_naming_convention"
    /\ ~pure.returned
    /\ pure' = [pure EXCEPT !.returned = TRUE,
                            !.ret = ApplyNamingConvention(pure.file_meta, pure.naming)]
    /\ UNCHANGED pipeline

NextPure ==
    \/ DetectProjectCall
    \/ ApplyNamingConventionCall

InitPure ==
    /\ InitWith(LogConfigs, {{}}, {<<0, 0>>})
    /\ pure \in DetectProjectCalls \cup NamingCalls

SpecPure == InitPure /\ [][NextPure]_vars

(***************************************************************************)
(* Properties.                                                             *)
(***************************************************************************)
\* The plans execute_plan does not skip, in plan order.
NonSkipped(ps) == SelectSeq(ps, LAMBDA p : ~p.skip)

HoldsData(F, p, data) == Exists(F, p) /\ F[p].data = data

\* C1: after a real run was logged, the first undo_last_batch (none of
\* whose steps raised) leaves, for every successful copy transaction of
\* that run, the destination absent and the source present with the data
\* it had before the run.
C1_UndoCopyRoundTrip ==
    (undoInfo.ran /\ undoInfo.firstSinceLog /\ undoInfo.failed = 0) =>
        \A i \in DOMAIN undoInfo.preLog :
            LET e == undoInfo.preLog[i]
                m == undoInfo.preMeta[i]
            IN  (m.run = logged /\ e.operation = "copy" /\ e.success) =>
                    /\ ~Exists(fs, e.destination_path)
                    /\ HoldsData(fs, e.source_path, m.orig)

\* C2: a step of a real run on a plan whose source exists, with no fault
\* from the environment, performs the copy or the move and records a
\* successful Transaction, under every configuration.
C2_ExecutePerformsAndSucceeds ==
    (pc \in {"exec", "done"} /\ ~dry /\ txns # <<>>) =>
        LET t == txns[Len(txns)]
            m == meta[Len(txns)]
        IN  (m.fault = "none" /\ m.orig # None) =>
                /\ t.success
                /\ HoldsData(fs, t.destination_path, m.orig)
                /\ (t.operation = "copy" => HoldsData(fs, t.source_path, m.orig))
                /\ (t.operation = "move" => ~Exists(fs, t.source_path))

\* C3: the step of execute_plan on a skipped plan, dry run or not, adds no
\* Transaction and changes no file, no directory and no log entry.
C3_SkippedPlanUntouched ==
    [][(pc = "exec" /\ idx <= Len(plans) /\ plans[idx].skip /\ idx' = idx + 1) =>
          (fs' = fs /\ dirs' = dirs /\ txns' = txns /\ log' = log)]_vars

C3_Witness ==
    /\ pc \in {"exec", "done"}
    /\ ~dry
    /\ \E i \in 1..(idx - 1) : plans[i].skip /\ plans[i].skip_reason = "Existing file is newer"

\* C4: when a dry run returns, it has produced one successful Transaction
\* per non-skipped plan, in plan order, and files and directories are what
\* they were when it started; this holds for every one of several dry runs.
C4_DryRunNoEffect ==
    (pc = "done" /\ dry) =>
        /\ fs = preFs
        /\ dirs = preDirs
        /\ Len(txns) = Len(NonSkipped(plans))
        /\ \A i \in DOMAIN txns :
              /\ txns[i].success
              /\ txns[i].source_path = NonSkipped(plans)[i].file_metadata.source_path
              /\ txns[i].destination_path = NonSkipped(plans)[i].destination_path

\* The second dry run of a behaviour has returned two transactions.
C4_Witness == pc = "done" /\ dry /\ dryLeft = 0 /\ Len(txns) = 2

\* C5: a real run never raises; when it returns it has one Transaction per
\* non-skipped plan, in plan order, and every step in which a stage failed
\* (a fault of the environment, or a missing source) has success=false
\* with an error recorded.
C5_PartialFailure ==
    /\ pc # "raised"
    /\ (pc = "done" /\ ~dry) =>
          /\ Len(txns) = Len(NonSkipped(plans))
          /\ \A i \in DOMAIN txns :
                /\ txns[i].source_path = NonSkipped(plans)[i].file_metadata.source_path
                /\ txns[i].destination_path = NonSkipped(plans)[i].destination_path
                /\ (meta[i].fault # "none" \/ meta[i].orig = None) =>
                       (~txns[i].success /\ txns[i].error # None)

\* The first of two plans failed on a fault, the second was still executed
\* and succeeded.
C5_Witness ==
    /\ pc = "done" /\ ~dry /\ Len(txns) = 2
    /\ meta[1].fault # "none" /\ ~txns[1].success
    /\ txns[2].success

\* C6: after create_organization_plan and a real run, under any strategy but
\* overwrite, the data each successful Transaction's source had before the
\* run is still at the source, at the destination or at the backup path.
C6_NoSilentDataLoss ==
    (pc = "done" /\ ~dry /\ freshRun /\ cfg.conflict_resolution # "overwrite") =>
        \A i \in DOMAIN txns :
            LET t == txns[i]
                data == preFs[t.source_path].data
            IN  txns[i].success =>
                    \/ HoldsData(fs, t.source_path, data)
                    \/ HoldsData(fs, t.destination_path, data)
                    \/ (t.backup_path # NoPath /\ HoldsData(fs, t.backup_path, data))

\* C7: undo_last_batch leaves the log without exactly the entries of the
\* batch, which were its last entries, whatever became of each undo; the
\* entries before them are unchanged and in their order.
C7_UndoRemovesLastBatch ==
    undoInfo.ran =>
        LET n == Len(undoInfo.batch)
            pre == undoInfo.preLog
        IN  /\ n >= 1
            /\ Len(log) = Len(pre) - n
            /\ \A i \in DOMAIN log : log[i] = pre[i]
            /\ \A i \in 1..n : ToDict(undoInfo.batch[i]) = pre[Len(log) + i]

\* An undo raised, and an earlier entry is still in the log.
C7_Witness == undoInfo.ran /\ undoInfo.failed >= 1 /\ log # <<>>

\* The time between entry i of a log and its last entry, and between entry
\* i and the next one.
GapToLast(all, i) == Abs(all[Len(all)].timestamp - all[i].timestamp)
GapToNext(all, i) == Abs(all[i + 1].timestamp - all[i].timestamp)

\* The last n entries are each within the window of the last entry.
WindowSuffix(all, n) ==
    \A i \in (Len(all) - n + 1)..Len(all) : GapToLast(all, i) < BatchWindow

\* The last n entries are each within the window of the next entry.
AdjacentSuffix(all, n) ==
    \A i \in (Len(all) - n + 1)..(Len(all) - 1) : GapToNext(all, i) < BatchWindow

LongestWindowSuffix(all) ==
    CHOOSE n \in 0..Len(all) :
        WindowSuffix(all, n) /\ \A m \in 0..Len(all) : WindowSuffix(all, m) => m <= n

LongestAdjacentSuffix(all) ==
    CHOOSE n \in 0..Len(all) :
        AdjacentSuffix(all, n) /\ \A m \in 0..Len(all) : AdjacentSuffix(all, m) => m <= n

\* C8 as stated: the last batch is the longest suffix of the log whose
\* adjacent transactions are less than 60 seconds apart.
C8_AdjacentGapBatch == Len(GetLastBatch(log)) = LongestAdjacentSuffix(log)

\* C8 amended: every transaction of the last batch is less than 60 seconds
\* from the last transaction; the batch is never longer than the suffix of
\* adjacent gaps under 60 seconds, and is shorter exactly when that suffix
\* spans 60 seconds or more: of [t, t+40, t+80] only the last two.
C8_BatchBoundedByLastTimestamp ==
    LET b == GetLastBatch(log)
        n == LongestAdjacentSuffix(log)
    IN  log # <<>> =>
          /\ \A i \in DOMAIN b : Abs(b[i].timestamp - log[Len(log)].timestamp) < BatchWindow
          /\ Len(b) <= n
          /\ (Len(b) = n) <=> (GapToLast(log, Len(log) - n + 1) < BatchWindow)
          /\ (/\ Len(log) >= 3
              /\ GapToNext(log, Len(log) - 1) = 40
              /\ GapToNext(log, Len(log) - 2) = 40) => Len(b) = 2

\* The log ends with transactions at t, t+40 and t+80.
C8_Witness ==
    /\ Len(log) >= 3
    /\ GapToNext(log, Len(log) - 1) = 40
    /\ GapToNext(log, Len(log) - 2) = 40
    /\ Len(GetLastBatch(log)) = 2

\* C9: the last batch is, in log order, the longest suffix of the log in
\* which every transaction is within the 60-second window of the last one;
\* a transaction 60 seconds or more before the last one, and everything
\* before it, is outside; the batch of a non-empty log is not empty.
C9_BatchIsWindowSuffix ==
    LET b == GetLastBatch(log)
        n == Len(b)
    IN  /\ (log # <<>> => n >= 1)
        /\ n = LongestWindowSuffix(log)
        /\ \A i \in 1..n : b[i] = FromDict(log[Len(log) - n + i])
        /\ \A i \in DOMAIN log :
              GapToLast(log, i) >= BatchWindow => \A j \in 1..i : j <= Len(log) - n

\* A transaction exactly one window before the last one, and one before
\* it, are outside a batch of two.
C9_Witness ==
    /\ Len(log) = 4
    /\ GapToLast(log, 2) = BatchWindow
    /\ Len(GetLastBatch(log)) = 2

\* C10: when undo_last_batch has processed a successful move transaction
\* whose destination existed (restoring from the backup, or moving the
\* destination back), the source holds the data it had before the move;
\* stated for behaviours in which the environment made no step raise.
C10_UndoMoveRestoresSource ==
    (undoInfo.ran /\ faultsUsed = 0) =>
        \A i \in DOMAIN undoInfo.batch :
            undoInfo.steps[i].how \in {"restored", "movedback"} =>
                undoInfo.steps[i].srcAfter = undoInfo.origs[i].orig

\* C11: undo_last_batch skips every transaction with success=false (a batch
\* of failed transactions leaves every file as it was and counts nothing),
\* and a step of a real run that records success=false, the environment
\* having made nothing raise, left the source as it was and neither created
\* nor replaced the destination.
C11_FailedNeedsNoUndo ==
    [][/\ (pc = "idle" /\ log' # log /\ undoInfo'.ran) =>
             /\ \A i \in DOMAIN undoInfo'.batch :
                   ~undoInfo'.batch[i].success => undoInfo'.steps[i].how = "skipped"
             /\ (\A i \in DOMAIN undoInfo'.batch : ~undoInfo'.batch[i].success) =>
                   (fs' = fs /\ undoInfo'.successful = 0 /\ undoInfo'.failed = 0)
       /\ (/\ pc = "exec" /\ ~dry /\ Len(txns') = Len(txns) + 1
           /\ faultsUsed' = faultsUsed
           /\ ~txns'[Len(txns')].success) =>
             LET src == txns'[Len(txns')].source_path
                 dst == txns'[Len(txns')].destination_path
             IN  /\ Exists(fs, src) => HoldsData(fs', src, fs[src].data)
                 /\ Exists(fs', dst) <=> Exists(fs, dst)
                 /\ Exists(fs, dst) => fs'[dst] = fs[dst]]_vars

\* C12: the batch processed by the first undo_last_batch after a run was
\* logged is exactly the entries that run appended: every entry of the run
\* is in it and no entry of an earlier run is.
C12_UndoIsLastRun ==
    (undoInfo.ran /\ undoInfo.firstSinceLog) =>
        \A i \in DOMAIN undoInfo.preLog :
            (undoInfo.preMeta[i].run = logged) <=>
                (i > Len(undoInfo.preLog) - Len(undoInfo.batch))

\* The destination create_organization_plan first computes for plan pl.
Candidate(pl) == GenerateDestinationPath(pl.file_metadata)

\* C13: under the rename strategy, a plan whose candidate destination
\* exists at planning time gets <stem>_<k> in the same directory for the
\* smallest k >= 1 that does not exist, is not skipped and has its conflict
\* flag cleared.
C13_RenameSmallestFree ==
    (fresh /\ cfg.conflict_resolution = "rename") =>
        \A i \in DOMAIN plans :
            LET pl == plans[i]
                cand == Candidate(pl)
                dst == pl.destination_path
            IN  Exists(fs, cand) =>
                    /\ <<dst[1], dst[2], dst[3]>> = <<cand[1], cand[2], cand[3]>>
                    /\ dst[4] >= 1
                    /\ ~Exists(fs, dst)
                    /\ \A j \in 1..(dst[4] - 1) : Exists(fs, <<dst[1], dst[2], dst[3], j>>)
                    /\ ~pl.skip
                    /\ ~pl.conflict

\* A plan was renamed to <stem>_2 because <stem> and <stem>_1 exist.
C13_Witness ==
    /\ fresh
    /\ cfg.conflict_resolution = "rename"
    /\ \E i \in DOMAIN plans :
          /\ Exists(fs, Candidate(plans[i]))
          /\ plans[i].destination_path[4] = 2

\* C14: for a plan whose candidate destination exists at planning time,
\* modified at T_old, and whose record was modified at T_new: under
\* keep_newest the plan is skipped iff T_new <= T_old, under keep_oldest iff
\* T_new >= T_old; a plan that is not skipped keeps the candidate path.
C14_KeepNewestOldest ==
    (fresh /\ cfg.conflict_resolution \in {"keep_newest", "keep_oldest"}) =>
        \A i \in DOMAIN plans :
            LET pl == plans[i]
                cand == Candidate(pl)
                T_old == fs[cand].mtime
                T_new == pl.file_metadata.modified_date
            IN  Exists(fs, cand) =>
                    /\ (cfg.conflict_resolution = "keep_newest") =>
                           (pl.skip <=> T_new <= T_old)
                    /\ (cfg.conflict_resolution = "keep_oldest") =>
                           (pl.skip <=> T_new >= T_old)
                    /\ ~pl.skip => pl.destination_path = cand

\* Under keep_oldest, a record older than the existing file is planned onto
\* the candidate path and a record of the same age is skipped.
C14_Witness ==
    /\ fresh
    /\ cfg.conflict_resolution = "keep_oldest"
    /\ Len(plans) = 2
    /\ Exists(fs, Candidate(plans[1]))
    /\ ~plans[1].skip
    /\ plans[1].file_metadata.modified_date < fs[Candidate(plans[1])].mtime
    /\ Exists(fs, Candidate(plans[2]))
    /\ plans[2].skip
    /\ plans[2].file_metadata.modified_date = fs[Candidate(plans[2])].mtime

\* C15: under the skip strategy, a plan whose candidate destination exists
\* at planning time is marked skip with the reason "File already exists",
\* and a run over the plans, dry or not, returns no Transaction for a
\* plan so marked.
C15_SkipStrategy ==
    cfg.conflict_resolution = "skip" =>
        /\ fresh =>
              \A i \in DOMAIN plans :
                  Exists(fs, Candidate(plans[i])) =>
                      (plans[i].skip /\ plans[i].skip_reason = "File already exists")
        /\ pc = "done" =>
              \A i \in DOMAIN plans :
                  plans[i].skip =>
                      \A j \in DOMAIN txns :
                          txns[j].source_path # plans[i].file_metadata.source_path

\* A real run over a skipped plan and a plan without conflict returned one
\* Transaction.
C15_Witness ==
    /\ cfg.conflict_resolution = "skip"
    /\ pc = "done" /\ ~dry /\ freshRun
    /\ Len(plans) = 2
    /\ Exists(preFs, Candidate(plans[1]))
    /\ plans[1].skip /\ plans[1].skip_reason = "File already exists"
    /\ Len(txns) = 1

\* C16: under the overwrite strategy, a plan whose candidate destination
\* exists at planning time keeps the candidate path, is not skipped and
\* has its conflict flag cleared.
C16_OverwriteKeepsCandidate ==
    (fresh /\ cfg.conflict_resolution = "overwrite") =>
        \A i \in DOMAIN plans :
            Exists(fs, Candidate(plans[i])) =>
                /\ plans[i].destination_path = Candidate(plans[i])
                /\ ~plans[i].skip
                /\ ~plans[i].conflict

\* An overwrite plan for an existing destination is planned, before any
\* run: the destination still holds the older file.
C16_Witness ==
    /\ fresh
    /\ cfg.conflict_resolution = "overwrite"
    /\ \E i \in DOMAIN plans :
          /\ HoldsData(fs, Candidate(plans[i]), OldFile.data)
          /\ plans[i].destination_path = Candidate(plans[i])
          /\ plans[i].conflict_resolution = "overwrite"

\* C17: every Transaction execute_plan has produced, and every entry of the
\* transaction log, has an error recorded if its success is false.
C17_FailureHasError ==
    /\ \A i \in DOMAIN txns : ~txns[i].success => txns[i].error # None
    /\ \A i \in DOMAIN log : ~log[i].success => FromDict(log[i]).error # None

\* A failed Transaction of a real run has been logged with its error.
C17_Witness ==
    \E i \in DOMAIN log :
        /\ ~log[i].success
        /\ log[i].error # None
        /\ logMeta[i].fault # "none"

\* C18 as stated: a Transaction has a backup path only if it is a move of a
\* real run with backups enabled whose backup copy did not fail.
C18_BackupOnlyForMove ==
    \A i \in DOMAIN txns :
        txns[i].backup_path # NoPath =>
            /\ txns[i].operation = "move"
            /\ ~dry
            /\ cfg.create_backup
            /\ meta[i].fault # "backup"

\* C18 amended: a Transaction has a backup path exactly when it belongs to
\* a real run with backups enabled and the backup copy was made (the source
\* existed, neither the directory creation nor the backup raised), for a
\* copy as well as for a move, whether or not the operation then succeeded;
\* a file exists at that path, and right after the step it holds the data
\* the source had.
C18_BackupPathIffBackupMade ==
    /\ \A i \in DOMAIN txns :
          /\ txns[i].backup_path # NoPath <=>
                 (/\ ~dry
                  /\ cfg.create_backup
                  /\ meta[i].orig # None
                  /\ meta[i].fault \notin {"mkdir", "backup"})
          /\ txns[i].backup_path # NoPath =>
                 (/\ Exists(fs, txns[i].backup_path)
                  /\ txns[i].backup_path = BackupName(txns[i].source_path, txns[i].timestamp))
    /\ (txns # <<>> /\ txns[Len(txns)].backup_path # NoPath) =>
          HoldsData(fs, txns[Len(txns)].backup_path, meta[Len(txns)].orig)

\* A copy of a real run with backups enabled has recorded its backup, and
\* a later step of the same run whose backup raised has none.
C18_Witness ==
    /\ pc = "done" /\ ~dry /\ cfg.create_backup /\ cfg.mode = "copy"
    /\ Len(txns) = 2
    /\ txns[1].success
    /\ HoldsData(fs, txns[1].backup_path, meta[1].orig)
    /\ meta[2].fault = "backup"
    /\ txns[2].backup_path = NoPath

\* C19: every plan of create_organization_plan, under every strategy, has a
\* conflict resolution if its conflict flag is set; a plan whose candidate
\* destination does not exist at planning time has no conflict flag, is not
\* skipped and has no conflict resolution.
C19_ConflictHasResolution ==
    /\ \A i \in DOMAIN plans :
          plans[i].conflict =>
              (plans[i].conflict_resolution # None
               /\ plans[i].conflict_resolution = cfg.conflict_resolution)
    /\ fresh =>
          \A i \in DOMAIN plans :
              ~Exists(fs, Candidate(plans[i])) =>
                  /\ ~plans[i].conflict
                  /\ ~plans[i].skip
                  /\ plans[i].conflict_resolution = None

\* One plan of a batch keeps its conflict flag (the prompt strategy leaves
\* it unresolved), another has no conflict.
C19_Witness ==
    /\ fresh
    /\ Len(plans) = 2
    /\ plans[1].conflict /\ plans[1].conflict_resolution = "prompt"
    /\ ~Exists(fs, Candidate(plans[2]))
    /\ plans[2].conflict_resolution = None

\* C20: a logger operation made on a missing or damaged log file does not
\* raise, and returns and leaves in the log what it would for an empty log.
C20_DamagedLogNeverFatal ==
    logOp.op # None =>
        /\ ~logOp.out.raised
        /\ logOp.out.result = logOp.asEmpty.result
        /\ logOp.out.log = logOp.asEmpty.log

\* C21: a log_transactions call on a readable log keeps every entry logged
\* before, unchanged and in its position, and appends the dicts of the new
\* transactions after them in the order given; the entries of the log are
\* therefore in the order of the calls that logged them.
C21_LogAppendOnly ==
    [][(logged' = logged + 1 /\ logFile = "list") =>
          /\ Len(log') = Len(log) + Len(txns)
          /\ \A i \in DOMAIN log : log'[i] = log[i]
          /\ \A j \in DOMAIN txns : log'[Len(log) + j] = ToDict(txns[j])
          /\ \A i, j \in DOMAIN logMeta' : i < j => logMeta'[i].run <= logMeta'[j].run]_vars

\* The log holds entries of a first run followed by entries of a second.
C21_Witness ==
    /\ logged = 2
    /\ Len(log) >= 3
    /\ logMeta[1].run = 1
    /\ logMeta[Len(log)].run = 2

\* The paths whose file differs between two filesystems: created, modified
\* or deleted.
Changed(F, G) ==
    {p \in (DOMAIN F) \cup (DOMAIN G) :
        ~(p \in DOMAIN F /\ p \in DOMAIN G /\ F[p] = G[p])}

UnderBaseOrBackup(p) == p[1] \in {BasePath, BackupPath}

PatternMatches(call, i) ==
    \E k \in DOMAIN call.patterns[i].keywords :
        Contains(Lower(call.file_meta.filename \o <<" ">> \o call.file_meta.parent_folder),
                 Lower(call.patterns[i].keywords[k]))

\* C23: _detect_project returns the cleaned repository identifier if there
\* is one; else the name of the first pattern with a keyword occurring
\* case-insensitively in "{filename} {parent_folder}"; else the cleaned
\* parent folder name if there is one; else the default label.
C23_ProjectPrecedence ==
    (pure.op = "_detect_project" /\ pure.returned) =>
        LET fm == pure.file_meta
            matching == {i \in DOMAIN pure.patterns : PatternMatches(pure, i)}
        IN  /\ fm.github_repo # <<>> => pure.ret = CleanProjectName(fm.github_repo)
            /\ (fm.github_repo = <<>> /\ matching # {}) =>
                   \E i \in matching :
                       /\ \A j \in matching : i <= j
                       /\ pure.ret = pure.patterns[i].name
            /\ (fm.github_repo = <<>> /\ matching = {} /\ fm.parent_folder # <<>>) =>
                   pure.ret = CleanProjectName(fm.parent_folder)
            /\ (fm.github_repo = <<>> /\ matching = {} /\ fm.parent_folder = <<>>) =>
                   pure.ret = DefaultProject

\* A record with a repository identifier and a matching keyword got the
\* cleaned repository identifier.
C23_Witness ==
    /\ pure.op = "_detect_project" /\ pure.returned
    /\ pure.file_meta.github_repo = <<"-", "a", " ", "-", "b", "_">>
    /\ \E i \in DOMAIN pure.patterns : PatternMatches(pure, i)
    /\ pure.ret = <<"a", "-", "b">>

\* text ends with suffix
EndsWith(text, suffix) ==
    /\ Len(suffix) <= Len(text)
    /\ SubSeq(text, Len(text) - Len(suffix) + 1, Len(text)) = suffix

\* C24: for every record and every max_length, the name returned by
\* _apply_naming_convention is at most max_length long and ends with the
\* record's extension; a name that was longer than max_length is returned
\* exactly max_length long.
C24_NamingTruncation ==
    (pure.op = "_apply_naming_convention" /\ pure.returned) =>
        LET longer == Len(pure.file_meta.stem) + Len(pure.file_meta.extension)
                          > pure.naming.max_length
        IN  /\ Len(pure.ret) <= pure.naming.max_length
            /\ EndsWith(pure.ret, pure.file_meta.extension)
            /\ longer => Len(pure.ret) = pure.naming.max_length

\* A second real run has returned, of the same copy plans as the run
\* logged before it, which was all successful; nothing was undone in
\* between and the environment made nothing raise.
SecondRunOfSamePlans ==
    /\ pc = "done" /\ ~dry
    /\ logged = 1 /\ ~undoInfo.undone /\ faultsUsed = 0
    /\ txns # <<>>
    /\ Len(log) = Len(txns)
    /\ \A i \in DOMAIN txns :
          /\ txns[i].operation = "copy"
          /\ log[i].success
          /\ log[i].source_path = txns[i].source_path
          /\ log[i].destination_path = txns[i].destination_path

\* C25: executing the same copy plans a second time, the destinations
\* existing by then, yields successful Transactions again and leaves every
\* file with the content it had after the first execution.
C25_ReentrantCopy ==
    SecondRunOfSamePlans =>
        /\ \A i \in DOMAIN txns : txns[i].success
        /\ \A p \in DOMAIN preFs : HoldsData(fs, p, preFs[p].data)
        /\ DOMAIN fs = DOMAIN preFs

\* The second run of two copy plans has returned; both destinations
\* existed when it started.
C25_Witness ==
    /\ SecondRunOfSamePlans
    /\ Len(txns) = 2
    /\ \A i \in DOMAIN txns : Exists(preFs, txns[i].destination_path)

\* Positions i < j of the undone batch whose transactions both succeeded
\* and name the same destination.
SamePathPairs ==
    {ij \in (DOMAIN undoInfo.batch) \X (DOMAIN undoInfo.batch) :
        /\ ij[1] < ij[2]
        /\ undoInfo.batch[ij[1]].success
        /\ undoInfo.batch[ij[2]].success
        /\ undoInfo.batch[ij[1]].destination_path =
             undoInfo.batch[ij[2]].destination_path}

\* C26: undo_last_batch takes the batch from the last logged transaction to
\* the first: of two transactions on one destination the earlier one finds
\* the file only when the later one, taken before it, left it in place (it
\* raised or restored from a backup); otherwise the later one removes the
\* file and the earlier one finds it gone.
C26_UndoLastToFirst ==
    undoInfo.ran =>
        \A ij \in SamePathPairs :
            LET first == undoInfo.steps[ij[1]].how
                last  == undoInfo.steps[ij[2]].how
            IN  /\ first \in {"unlinked", "movedback", "restored", "failed"}
                      => last \in {"failed", "restored"}
                /\ last \in {"unlinked", "movedback"} => first = "absent"

\* An undone batch held two successful transactions on one destination; the
\* later one removed the file, the earlier one found it gone.
C26_Witness ==
    /\ undoInfo.ran
    /\ \E ij \in SamePathPairs :
          /\ undoInfo.steps[ij[2]].how \in {"unlinked", "movedback"}
          /\ undoInfo.steps[ij[1]].how = "absent"

\* C27: two records of one batch with the same candidate destination get
\* the same final destination under every strategy, a plan is flagged or
\* skipped only when its candidate exists on disk, and a real run of both,
\* the later one without a fault, leaves the later source's content there.
C27_IntraBatchCollision ==
    /\ fresh =>
          \A i, j \in DOMAIN plans :
              (i < j /\ Candidate(plans[i]) = Candidate(plans[j])) =>
                  /\ plans[i].destination_path = plans[j].destination_path
                  /\ \A k \in {i, j} :
                        (plans[k].conflict \/ plans[k].skip)
                            => Exists(fs, Candidate(plans[k]))
                  /\ (cfg.conflict_resolution = "rename"
                        /\ Exists(fs, Candidate(plans[i])))
                        => /\ plans[i].destination_path[4] >= 1
                           /\ ~Exists(fs, plans[i].destination_path)
    /\ (pc = "done" /\ ~dry /\ freshRun) =>
          \A i, j \in DOMAIN txns :
              (/\ i < j
               /\ txns[i].destination_path = txns[j].destination_path
               /\ meta[j].fault = "none" /\ meta[j].orig # None) =>
                  HoldsData(fs, txns[j].destination_path,
                            preFs[txns[j].source_path].data)

\* A real run executed two plans renamed to the same <stem>_1, and the
\* destination holds the second source's content, not the first's.
C27_Witness ==
    /\ pc = "done" /\ ~dry /\ freshRun
    /\ cfg.conflict_resolution = "rename"
    /\ Len(txns) = 2
    /\ txns[1].destination_path = txns[2].destination_path
    /\ txns[1].destination_path[4] = 1
    /\ meta[1].fault = "none" /\ meta[2].fault = "none"
    /\ HoldsData(fs, txns[2].destination_path, preFs[txns[2].source_path].data)
    /\ preFs[txns[1].source_path].data # preFs[txns[2].source_path].data

\* C28: under the prompt strategy a plan whose candidate destination exists
\* is only marked (conflict=true, conflict_resolution=prompt, skip=false,
\* destination unchanged), and a real run of the plans as planned leaves the
\* existing file at that destination as it was.
C28_PromptDefers ==
    /\ (fresh /\ cfg.conflict_resolution = "prompt") =>
          \A i \in DOMAIN plans :
              Exists(fs, Candidate(plans[i])) =>
                  /\ plans[i].conflict
                  /\ plans[i].conflict_resolution = "prompt"
                  /\ ~plans[i].skip
                  /\ plans[i].destination_path = Candidate(plans[i])
    /\ (pc = "done" /\ ~dry /\ freshRun /\ cfg.conflict_resolution = "prompt") =>
          \A i \in DOMAIN plans :
              (plans[i].conflict /\ Exists(preFs, plans[i].destination_path)) =>
                  HoldsData(fs, plans[i].destination_path,
                            preFs[plans[i].destination_path].data)

\* C29: after undo_last_batch has reverted a successful move transaction,
\* by restoring the source from the recorded backup or by moving the
\* destination back, the destination file no longer exists.
C29_UndoMoveRemovesDestination ==
    undoInfo.ran =>
        \A i \in DOMAIN undoInfo.batch :
            (/\ undoInfo.batch[i].operation = "move"
             /\ undoInfo.batch[i].success
             /\ undoInfo.steps[i].how \in {"restored", "movedback"}) =>
                /\ ~undoInfo.steps[i].dstAfter
                /\ ~Exists(fs, undoInfo.batch[i].destination_path)

\* C30: the backup paths recorded on the transactions of one real run are
\* pairwise distinct, and when the run returns each recorded backup holds
\* the content its own source had before the run.
C30_BackupsDistinct ==
    (pc = "done" /\ ~dry /\ cfg.create_backup) =>
        /\ \A i, j \in DOMAIN txns :
              (i # j /\ txns[i].backup_path # NoPath /\ txns[j].backup_path # NoPath)
                  => txns[i].backup_path # txns[j].backup_path
        /\ \A i \in DOMAIN txns :
              (txns[i].backup_path # NoPath /\ meta[i].orig # None) =>
                  HoldsData(fs, txns[i].backup_path, meta[i].orig)
====
